---- MODULE Spec2Model ----
(***************************************************************************)
(* Safe-Policy-Optimization: the parallel vectorized environment substrate *)
(* (safepo/multi_agent/marl_utils/env_wrappers.py: shareworker,            *)
(* ShareSubprocVecEnv, ShareDummyVecEnv) and the CPO trust-region update   *)
(* (safepo/envs/safe_dexteroushands/algorithms/cpo.py: CPO.update).        *)
(***************************************************************************)
EXTENDS Integers, Sequences, FiniteSets, TLC

\* ------------------------------------------------------------------ sizes
NumEnvs == 2
NumAgents == 2
MaxT == 1
MaxPending == 2
MaxReq == 3

Envs == 1..NumEnvs

VARIABLES
    waiting,      \* ShareSubprocVecEnv.waiting
    closed,       \* ShareSubprocVecEnv.closed
    pc,           \* the controlling process's position inside a public call
    args,         \* the actions of the step dispatch in progress
    results,      \* the replies the current call has collected so far
    ret,          \* what the last finished public call did: returned a value or raised
    toWorker,     \* per worker: requests sent and not yet received (parent -> worker)
    toParent,     \* per worker: replies sent and not yet received (worker -> parent)
    wpc,          \* per worker: "recv" (in its loop) | "exited" | "faulted"
    env,          \* per worker: its environment
    denv,         \* ShareDummyVecEnv.envs
    dret,         \* what the last call on the ShareDummyVecEnv returned
    sentInCall,   \* observer: requests sent to each worker by the current call
    recvInCall,   \* observer: replies received from each worker by the current call
    sentLog,      \* observer: the requests sent to each worker, in order
    wlog,         \* observer: per worker, each request received with the replies to it
    upc,          \* CPO.update: position ("idle", "batch", "dual", "search", "final", "done", "fault")
    c,            \* avg_cost, the constraint value of the update
    bb,           \* torch.matmul(b, b), in units of 1e-8
    s,            \* b^T H^-1 b
    B,            \* 2 * max_kl - c**2 / s
    optim_case,   \* the case the dual optimizer selected
    x,            \* the update direction
    current_policy, \* get_flat_params(actor) before the line search
    actor,        \* the actor's parameters
    cand,         \* index of the next line-search candidate
    step_len,     \* the accepted step length
    tried,        \* observer: the candidate steps evaluated, in order
    verdicts,     \* observer: for each, whether it met the three acceptance conditions
    last_eval     \* observer: the last set_and_eval: its parameters, its outcome, the KL
                  \* that failed its assertion, the surrogate-cost change it accepted
VARIABLES
    pmodel,       \* a model's parameter blocks (model.parameters()), in iteration order
    pvec,         \* a flat parameter vector
    pout          \* the last call on them: which, the blocks before it, whether it raised

parentVars == <<waiting, closed, pc, args, results, ret>>
pipeVars == <<toWorker, toParent>>
workerVars == <<wpc, env>>
dummyVars == <<denv, dret>>
callObs == <<sentInCall, recvInCall>>
logVars == <<sentLog, wlog>>
vecVars == <<parentVars, pipeVars, workerVars, dummyVars, callObs, logVars>>
cpoVars == <<upc, c, bb, s, B, optim_case, x, current_policy, actor, cand, step_len,
             tried, verdicts, last_eval>>
VARIABLES
    cg_pc,        \* cg_solver: "idle" | "loop" (top of an iteration) | "resid" | "returned"
    max_iter,     \* its iteration budget
    cg_i,         \* its loop index i
    cg_x, cg_r, cg_p,   \* x, r, p
    cg_avp, cg_alpha,   \* Avp and alpha of the current iteration
    cg_calls,     \* observer: calls of Avp_fun so far
    cg_updates,   \* observer: updates of r and p so far
    cg_divs       \* observer: the divisions performed: where, EPS added or not, the divisor

VARIABLES
    rpc,          \* CPO.run: position ("idle", "iter", "rollout", "stats", "returns",
                  \* "costs", "update", "clear", "finished", "aborted")
    it,           \* iterations finished
    tstep,        \* transitions of the current rollout collected so far
    storage,      \* RolloutStorage: transitions held, returns computed, costs computed
    cur_reward_sum, cur_cost_sum, cur_episode_length,   \* per environment
    reward_sum, cost_sum, episode_length,               \* the lists made before the loop
    ep_cost,      \* the episode costs of the current rollout
    rewbuffer, costbuffer, lenbuffer,                   \* the statistics deques
    avg_cost,     \* the constraint value handed to update
    oplog,        \* observer: the storage operations and the update of this iteration
    running,      \* observer: per environment, reward, cost and length since its last done
    episodes,     \* observer: the episode completions so far, in order
    last_case     \* observer: the case the update of this iteration selected (-1: none)

VARIABLES
    cost_limit,   \* IPO.cost_limit
    kappa,        \* IPO.kappa
    penalty_max,  \* IPO.penalty_max
    ep_costs,     \* logger.get_stats('EpCosts')[0] as the last compute_loss_pi read it
    Penalty,      \* the value the last compute_loss_pi gave logger.store(Penalty=...)
    cost_coef,    \* the factor of surr_cadv in the loss_pi it returned
    ipo_out       \* how it ended: "none" | "returned" | "raised"

paramVars == <<pmodel, pvec, pout>>
runVars == <<rpc, it, tstep, storage, cur_reward_sum, cur_cost_sum, cur_episode_length,
             reward_sum, cost_sum, episode_length, ep_cost, rewbuffer, costbuffer,
             lenbuffer, avg_cost, oplog, running, episodes, last_case>>
cgVars == <<cg_pc, max_iter, cg_i, cg_x, cg_r, cg_p, cg_avp, cg_alpha, cg_calls,
            cg_updates, cg_divs>>
ipoVars == <<cost_limit, kappa, penalty_max, ep_costs, Penalty, cost_coef, ipo_out>>
restVars == <<paramVars, cgVars, runVars, ipoVars>>

\* ------------------------------------------------- the stub environment
\* A deterministic episodic environment: its state is the step count t of the
\* running episode, its observations are functions of (environment, t), its
\* done flags are decided by the action.  scalar = single-agent mode (done is
\* one bool); otherwise done is a list with one bool per agent.
Actions == 0..NumAgents

Min(a, b) == IF a < b THEN a ELSE b

Obs(i, t) == 10 * i + t
ShareObs(i, t) == 100 * i + t
Avail(i, t) == 1000 * i + t

EnvDone(e, a) ==
    IF e.scalar
    THEN [isbool |-> TRUE, v |-> <<a = NumAgents>>]
    ELSE [isbool |-> FALSE, v |-> [k \in 1..NumAgents |-> a >= (NumAgents + 1 - k)]]

EnvStep(i, e, a) ==
    LET t == Min(e.t + 1, MaxT) IN
    [env |-> [e EXCEPT !.t = t],
     ob |-> Obs(i, t), s_ob |-> ShareObs(i, t),
     reward |-> a + 1, cost |-> 2 * a, done |-> EnvDone(e, a), info |-> 3 * a,
     avail |-> Avail(i, t)]

EnvReset(i, e) ==
    [env |-> [e EXCEPT !.t = 0],
     ob |-> Obs(i, 0), s_ob |-> ShareObs(i, 0), avail |-> Avail(i, 0)]

EnvClose(e) == [e EXCEPT !.closed = TRUE]

NewEnv(m) == [t |-> 0, closed |-> FALSE, scalar |-> m]

\* ------------------------------------------------------------ shareworker
DoneAny(done) ==
    IF done.isbool
    THEN done.v[1]
    ELSE \E k \in 1..Len(done.v) : done.v[k]

\* 'bool' in done.__class__.__name__ ? done : np.all(done)
DoneAll(done) ==
    IF done.isbool
    THEN done.v[1]
    ELSE \A k \in 1..Len(done.v) : done.v[k]

\* The reply to a step request.
StepReply(i, e, a) ==
    LET st == EnvStep(i, e, a)
        rs == EnvReset(i, st.env)
    IN  IF DoneAll(st.done)
        THEN [env |-> rs.env,
              msg |-> [kind |-> "step", ob |-> rs.ob, s_ob |-> rs.s_ob,
                       reward |-> st.reward, cost |-> st.cost, done |-> st.done,
                       info |-> st.info, avail |-> rs.avail]]
        ELSE [env |-> st.env,
              msg |-> [kind |-> "step", ob |-> st.ob, s_ob |-> st.s_ob,
                       reward |-> st.reward, cost |-> st.cost, done |-> st.done,
                       info |-> st.info, avail |-> st.avail]]

ResetReply(i, e) ==
    LET rs == EnvReset(i, e) IN
    [env |-> rs.env,
     msg |-> [kind |-> "reset", ob |-> rs.ob, s_ob |-> rs.s_ob, avail |-> rs.avail]]

UnknownTagIgnored(e) == [env |-> e, out |-> <<>>, pc |-> "recv"]

\* else: raise NotImplementedError -- the worker process dies.
UnknownTag(e) == [env |-> e, out |-> <<>>, pc |-> "faulted"]

\* One pass of the worker's loop body on request req with environment e:
\* the environment afterwards, the replies sent (none or one), and where the
\* worker is next.
Handle(i, e, req) ==
    CASE req.cmd = "step" ->
            [env |-> StepReply(i, e, req.data).env,
             out |-> <<StepReply(i, e, req.data).msg>>, pc |-> "recv"]
      [] req.cmd = "reset" ->
            [env |-> ResetReply(i, e).env, out |-> <<ResetReply(i, e).msg>>, pc |-> "recv"]
      [] req.cmd = "reset_task" ->
            [env |-> EnvReset(i, e).env,
             out |-> <<[kind |-> "task", ob |-> EnvReset(i, e).ob]>>, pc |-> "recv"]
      [] req.cmd = "render" ->
            [env |-> e,
             out |-> IF req.data = "rgb_array"
                     THEN <<[kind |-> "frame", ob |-> Obs(i, e.t)]>>
                     ELSE <<>>,
             pc |-> "recv"]
      [] req.cmd = "close" ->
            [env |-> EnvClose(e), out |-> <<>>, pc |-> "exited"]
      [] req.cmd = "get_spaces" ->
            [env |-> e, out |-> <<[kind |-> "spaces", ob |-> NumAgents]>>, pc |-> "recv"]
      [] req.cmd = "render_vulnerability" ->
            [env |-> e, out |-> <<[kind |-> "vulnerability", ob |-> Obs(i, e.t)]>>,
             pc |-> "recv"]
      [] req.cmd = "get_num_agents" ->
            [env |-> e, out |-> <<[kind |-> "num_agents", ob |-> NumAgents]>>, pc |-> "recv"]
      [] OTHER -> UnknownTag(e)

NewestRequest(q) == q[Len(q)]

\* remote.recv(): the oldest request in the pipe.
NextRequest(q) == Head(q)

\* One iteration of the worker's loop: receive a request, act on it, send
\* the reply if it has one.  The worker blocks in recv while its pipe is empty.
WorkerStep(i) ==
    /\ wpc[i] = "recv"
    /\ toWorker[i] # <<>>
    /\ LET h == Handle(i, env[i], NextRequest(toWorker[i])) IN
        /\ env' = [env EXCEPT ![i] = h.env]
        /\ toParent' = [toParent EXCEPT ![i] = @ \o h.out]
        /\ wpc' = [wpc EXCEPT ![i] = h.pc]
    /\ toWorker' = [toWorker EXCEPT ![i] = Tail(@)]
    /\ UNCHANGED <<parentVars, callObs>>

\* ------------------------------------------------- ShareSubprocVecEnv
Idle == [op |-> "idle", fn |-> "idle", phase |-> "none", i |-> 0]

Dead(i) == wpc[i] \in {"exited", "faulted"}

\* Requests sent to worker i whose reply has not been collected.
Outstanding(i) ==
    Len(toWorker[i]) + Len(toParent[i])

Zeros == [i \in Envs |-> 0]

\* The message method fn sends to worker i.
Request(fn, i) ==
    CASE fn = "step_async" -> [cmd |-> "step", data |-> args[i]]
      [] fn = "reset" -> [cmd |-> "reset", data |-> 0]
      [] fn = "reset_task" -> [cmd |-> "reset_task", data |-> 0]
      [] fn = "close" -> [cmd |-> "close", data |-> 0]

SendNextSkipLast(p) ==
    IF p.i < NumEnvs - 1 THEN [p EXCEPT !.i = p.i + 1]
    ELSE CASE p.fn = "step_async" ->
                 IF p.op = "step"
                 THEN [op |-> "step", fn |-> "step_wait", phase |-> "recv", i |-> 1]
                 ELSE Idle
           [] p.fn = "close" -> [p EXCEPT !.phase = "join", !.i = 1]
           [] OTHER -> [p EXCEPT !.phase = "recv", !.i = 1]

\* Where the controlling process is after the send at position p.
SendNext(p) ==
    IF p.i < NumEnvs THEN [p EXCEPT !.i = p.i + 1]
    ELSE CASE p.fn = "step_async" ->
                 IF p.op = "step"
                 THEN [op |-> "step", fn |-> "step_wait", phase |-> "recv", i |-> 1]
                 ELSE Idle
           [] p.fn = "close" -> [p EXCEPT !.phase = "join", !.i = 1]
           [] OTHER -> [p EXCEPT !.phase = "recv", !.i = 1]

RecvNextFirstOnly(p) ==
    IF p.phase = "drain" THEN [p EXCEPT !.phase = "send", !.i = 1] ELSE Idle

\* Where it is after the recv at position p.
RecvNext(p) ==
    IF p.i < NumEnvs THEN [p EXCEPT !.i = p.i + 1]
    ELSE IF p.phase = "drain" THEN [p EXCEPT !.phase = "send", !.i = 1]
    ELSE Idle

JoinNextFirstOnly(p) == Idle

\* Where it is after the join at position p.
JoinNext(p) ==
    IF p.i < NumEnvs THEN [p EXCEPT !.i = p.i + 1] ELSE Idle

\* A reply as the tuple the worker sent.
AsTuple(m) ==
    CASE m.kind = "step" -> <<m.ob, m.s_ob, m.reward, m.cost, m.done, m.info, m.avail>>
      [] m.kind = "reset" -> <<m.ob, m.s_ob, m.avail>>
      [] OTHER -> <<m.ob>>

\* zip(*rs): as many tuples as the shortest reply has entries.
ZipLen(rs) ==
    CHOOSE n \in 0..7 :
        /\ \A k \in 1..Len(rs) : n <= Len(AsTuple(rs[k]))
        /\ \/ n = 7
           \/ \E k \in 1..Len(rs) : n = Len(AsTuple(rs[k]))

StackReversed(rs, k) == [j \in 1..Len(rs) |-> AsTuple(rs[Len(rs) + 1 - j])[k]]

\* np.stack of the k-th entries of the replies.
Stack(rs, k) == [j \in 1..Len(rs) |-> AsTuple(rs[j])[k]]

Returned(op, v) == [op |-> op, outcome |-> "returned", value |-> v]
Raised(op) == [op |-> op, outcome |-> "raised", value |-> <<>>]

StepWaitResult(op, rs) ==
    IF ZipLen(rs) = 7
    THEN Returned(op, [obs |-> Stack(rs, 1), share_obs |-> Stack(rs, 2),
                       rews |-> Stack(rs, 3), costs |-> Stack(rs, 4),
                       dones |-> Stack(rs, 5), infos |-> Stack(rs, 6),
                       available_actions |-> Stack(rs, 7)])
    ELSE Raised(op)

ResetResult(op, rs) ==
    IF ZipLen(rs) = 3
    THEN Returned(op, [obs |-> Stack(rs, 1), share_obs |-> Stack(rs, 2),
                       available_actions |-> Stack(rs, 3)])
    ELSE Raised(op)

ResetTaskResult(op, rs) ==
    IF \A k \in 1..Len(rs) : rs[k].kind = "task"
    THEN Returned(op, [obs |-> Stack(rs, 1)])
    ELSE Raised(op)

\* A public call starts: the caller is between calls.
Begin(p, acts) ==
    /\ pc = Idle
    /\ pc' = p
    /\ args' = acts
    /\ results' = <<>>
    /\ ret' = [op |-> p.op, outcome |-> "none", value |-> <<>>]
    /\ sentInCall' = Zeros
    /\ recvInCall' = Zeros
    /\ UNCHANGED <<waiting, closed, pipeVars, workerVars>>

CanDispatch == \A i \in Envs : Outstanding(i) < MaxPending

CallStepAsync(acts) ==
    /\ CanDispatch
    /\ Begin([op |-> "step_async", fn |-> "step_async", phase |-> "send", i |-> 1], acts)

CallStepWait ==
    Begin([op |-> "step_wait", fn |-> "step_wait", phase |-> "recv", i |-> 1], <<>>)

CallStep(acts) ==
    /\ CanDispatch
    /\ Begin([op |-> "step", fn |-> "step_async", phase |-> "send", i |-> 1], acts)

CallReset ==
    /\ CanDispatch
    /\ Begin([op |-> "reset", fn |-> "reset", phase |-> "send", i |-> 1], <<>>)

CallResetTask ==
    /\ CanDispatch
    /\ Begin([op |-> "reset_task", fn |-> "reset_task", phase |-> "send", i |-> 1], <<>>)

CallClose ==
    /\ pc = Idle
    /\ IF closed
       THEN /\ ret' = Returned("close", <<>>)
            /\ UNCHANGED <<waiting, closed, pc, args, results, pipeVars, workerVars, callObs>>
       ELSE Begin([op |-> "close", fn |-> "close",
                   phase |-> IF waiting THEN "drain" ELSE "send", i |-> 1], <<>>)

\* remote.send(...): one iteration of a send loop.  A pipe whose worker has
\* gone raises BrokenPipeError out of the call.
ParentSend ==
    /\ pc.phase = "send"
    /\ IF Dead(pc.i)
       THEN /\ pc' = Idle
            /\ ret' = Raised(pc.op)
            /\ args' = <<>>
            /\ UNCHANGED <<waiting, closed, results, pipeVars, callObs>>
       ELSE /\ toWorker' = [toWorker EXCEPT ![pc.i] = Append(@, Request(pc.fn, pc.i))]
            /\ sentInCall' = [sentInCall EXCEPT ![pc.i] = @ + 1]
            /\ pc' = SendNext(pc)
            /\ waiting' = IF pc.fn = "step_async" /\ SendNext(pc).phase # "send"
                          THEN TRUE ELSE waiting
            /\ args' = IF SendNext(pc).phase # "send" THEN <<>> ELSE args
            /\ ret' = IF SendNext(pc) = Idle THEN Returned(pc.op, <<>>) ELSE ret
            /\ UNCHANGED <<closed, results, toParent, recvInCall>>
    /\ UNCHANGED workerVars

\* remote.recv(): one iteration of a collect loop; blocks while the pipe is
\* empty and the worker lives, raises EOFError when the worker has gone.
ParentRecv ==
    /\ pc.phase \in {"recv", "drain"}
    /\ \/ /\ toParent[pc.i] # <<>>
          /\ toParent' = [toParent EXCEPT ![pc.i] = Tail(@)]
          /\ recvInCall' = [recvInCall EXCEPT ![pc.i] = @ + 1]
          /\ pc' = RecvNext(pc)
          /\ LET rs == Append(results, Head(toParent[pc.i]))
                 last == RecvNext(pc).phase # pc.phase
             IN  /\ results' = IF last \/ pc.phase = "drain" THEN <<>> ELSE rs
                 /\ waiting' = IF last /\ pc.fn = "step_wait" THEN FALSE ELSE waiting
                 /\ ret' = IF ~last THEN ret
                           ELSE CASE pc.fn = "step_wait" -> StepWaitResult(pc.op, rs)
                                  [] pc.fn = "reset" -> ResetResult(pc.op, rs)
                                  [] pc.fn = "reset_task" -> ResetTaskResult(pc.op, rs)
                                  [] OTHER -> ret
          /\ UNCHANGED <<closed, args, toWorker, sentInCall>>
       \/ /\ toParent[pc.i] = <<>>
          /\ Dead(pc.i)
          /\ pc' = Idle
          /\ ret' = Raised(pc.op)
          /\ results' = <<>>
          /\ UNCHANGED <<waiting, closed, args, pipeVars, callObs>>
    /\ UNCHANGED workerVars

\* p.join(): returns once worker pc.i has terminated; after the last join
\* close() sets closed.
ParentJoin ==
    /\ pc.phase = "join"
    /\ Dead(pc.i)
    /\ pc' = JoinNext(pc)
    /\ closed' = IF JoinNext(pc) = Idle THEN TRUE ELSE closed
    /\ ret' = IF JoinNext(pc) = Idle THEN Returned("close", <<>>) ELSE ret
    /\ UNCHANGED <<waiting, args, results, pipeVars, workerVars, callObs>>

\* --------------------------------------------------- ShareDummyVecEnv
DummyDoneAny(done) ==
    IF done.isbool
    THEN done.v[1]
    ELSE \E k \in 1..Len(done.v) : done.v[k]

\* for i, done in enumerate(dones): 'bool' in its class name ? done : np.all(done)
DummyDoneAll(done) ==
    IF done.isbool
    THEN done.v[1]
    ELSE \A k \in 1..Len(done.v) : done.v[k]

\* step_async then step_wait: step every environment in order, then reset
\* the ones whose step reported done.
DummyStepWait(envs, acts) ==
    LET st == [i \in Envs |-> EnvStep(i, envs[i], acts[i])]
        rs == [i \in Envs |-> EnvReset(i, st[i].env)]
        dn == [i \in Envs |-> DummyDoneAll(st[i].done)]
    IN  [envs |-> [i \in Envs |-> IF dn[i] THEN rs[i].env ELSE st[i].env],
         value |-> [obs |-> [i \in Envs |-> IF dn[i] THEN rs[i].ob ELSE st[i].ob],
                    share_obs |-> [i \in Envs |-> IF dn[i] THEN rs[i].s_ob ELSE st[i].s_ob],
                    rews |-> [i \in Envs |-> st[i].reward],
                    costs |-> [i \in Envs |-> st[i].cost],
                    dones |-> [i \in Envs |-> st[i].done],
                    infos |-> [i \in Envs |-> st[i].info],
                    available_actions |->
                        [i \in Envs |-> IF dn[i] THEN rs[i].avail ELSE st[i].avail]]]

DummyReset(envs) ==
    LET rs == [i \in Envs |-> EnvReset(i, envs[i])] IN
    [envs |-> [i \in Envs |-> rs[i].env],
     value |-> [obs |-> [i \in Envs |-> rs[i].ob],
                share_obs |-> [i \in Envs |-> rs[i].s_ob],
                available_actions |-> [i \in Envs |-> rs[i].avail]]]

DummyStep(acts) ==
    /\ denv' = DummyStepWait(denv, acts).envs
    /\ dret' = Returned("step", DummyStepWait(denv, acts).value)

DummyResetCall ==
    /\ denv' = DummyReset(denv).envs
    /\ dret' = Returned("reset", DummyReset(denv).value)

\* ------------------------------------------------------- CPO.update
\* Floating-point values: a number, nan, or an infinity with its sign in v.
Num(n) == [k |-> "num", v |-> n]
NaN == [k |-> "nan", v |-> 0]
Inf(sgn) == [k |-> "inf", v |-> sgn]

Sign(n) == IF n > 0 THEN 1 ELSE IF n < 0 THEN 0 - 1 ELSE 0
Max(a, b) == IF a > b THEN a ELSE b

\* n / d for a finite n: 0/0 is nan, n/0 an infinity.
FDiv(n, d) ==
    IF d.k = "nan" THEN NaN
    ELSE IF d.v = 0 THEN (IF n = 0 THEN NaN ELSE Inf(Sign(n)))
    ELSE Num(n \div d.v)

\* n - f for a finite n.
FRSub(n, f) ==
    CASE f.k = "nan" -> NaN
      [] f.k = "inf" -> Inf(0 - f.v)
      [] OTHER -> Num(n - f.v)

\* f < 0 and f >= 0: both false of nan.
FNeg(f) == f.k # "nan" /\ f.v < 0
FNonNeg(f) == f.k # "nan" /\ (IF f.k = "inf" THEN f.v > 0 ELSE f.v >= 0)

\* e * f and a - f on parameter vectors (one component); 0 * nan is nan.
FScale(e, f) == IF f.k = "nan" THEN NaN ELSE Num(e * f.v)
FMinus(a, f) == IF a.k = "nan" \/ f.k = "nan" THEN NaN ELSE Num(a.v - f.v)

MaxKl == 2
BBThreshold == 1
NumCandidates == 10
MaxC == 3
MaxParam == 1

CValues == (0 - MaxC)..MaxC
BBValues == 0..(BBThreshold + 1)
SValues == {Num(0), Num(1), NaN}
XValues == {Num(0), Num(1), Num(0 - 1), NaN}

DualCaseStrict(bbv, cv, sv) ==
    IF bbv < BBThreshold /\ cv < 0
    THEN [B |-> Num(0), optim_case |-> 4]
    ELSE LET Bv == FRSub(2 * MaxKl, FDiv(cv * cv, sv)) IN
         [B |-> Bv,
          optim_case |-> IF cv < 0 /\ FNeg(Bv) THEN 3
                         ELSE IF cv < 0 /\ FNonNeg(Bv) THEN 2
                         ELSE IF cv >= 0 /\ FNonNeg(Bv) /\ Bv.v > 0 THEN 1
                         ELSE 0]

\* if b.b <= 1e-8 and c < 0: case 4; else B = 2*max_kl - c**2/s and the four
\* regimes by the signs of c and B.
DualCase(bbv, cv, sv) ==
    IF bbv <= BBThreshold /\ cv < 0
    THEN [B |-> Num(0), optim_case |-> 4]
    ELSE LET Bv == FRSub(2 * MaxKl, FDiv(cv * cv, sv)) IN
         [B |-> Bv,
          optim_case |-> IF cv < 0 /\ FNeg(Bv) THEN 3
                         ELSE IF cv < 0 /\ FNonNeg(Bv) THEN 2
                         ELSE IF cv >= 0 /\ FNonNeg(Bv) THEN 1
                         ELSE 0]

\* pi_linear_search_list[::-1]: np.linspace(0, 0.01, 10) reversed, the j-th
\* candidate in units of 0.01 / 9.
StepOf(j) == NumCandidates - j

AcceptNoCost(kl, improve_loss, improve_cost, cv, case) ==
    /\ kl <= MaxKl
    /\ (IF case > 1 THEN improve_loss >= 0 ELSE TRUE)

AcceptAlwaysReturn(kl, improve_loss, improve_cost, cv, case) ==
    /\ kl <= MaxKl
    /\ improve_loss >= 0
    /\ improve_cost <= Max(0 - cv, 0)

\* kl_value <= max_kl and (pi_l_new >= surrogate_loss if optim_case > 1 else
\* True) and improve_cost <= max(-c, 0.0)
Accept(kl, improve_loss, improve_cost, cv, case) ==
    /\ kl <= MaxKl
    /\ (IF case > 1 THEN improve_loss >= 0 ELSE TRUE)
    /\ improve_cost <= Max(0 - cv, 0)

\* x = (1/(lam+EPS)) * (v + nu*w) if optim_case > 0 else nu*w, with
\* nu = sqrt(2*max_kl / (s+EPS)) in case 0: a nan s gives a nan direction.
\* Cases 1..3 need a B that compares, so their s is not nan; case 4 has no s.
Directions(case, sv) == IF case = 0 /\ sv.k = "nan" THEN {NaN} ELSE XValues

KlOkUnlessNan(kl) == kl.k # "nan"

\* assert kl_value.item() >= 0 (false of nan)
KlOk(kl) == FNonNeg(kl)

\* What the observer keeps of a trial's KL: the value when it is not >= 0.
KlSeen(kl) == IF FNonNeg(kl) THEN Num(0) ELSE kl

\* No set_and_eval has run.
NoEval == [th |-> Num(0), kl |-> Num(0), dc |-> 0, ret |-> "none"]

SearchStartFull == [k |-> 1, step_len |-> StepOf(1)]

\* step_len = 0, the candidates tried from the first
SearchStart == [k |-> 1, step_len |-> 0]

\* new_policy = current_policy - step * x
NewPolicy(cur, step, dir) == FMinus(cur, FScale(step, dir))

\* What actor.evaluate can yield on the batch under parameters th: the mean
\* KL to the old distribution and the changes of the two surrogates.
\* Non-finite parameters give a nan KL.
KLValues(th) == IF th.k = "nan" THEN {NaN} ELSE {Num(0 - 1), Num(0), Num(MaxKl), Num(MaxKl + 1)}
LossChanges == {0 - 1, 0, 1}
CostChanges == (0 - 1)..(MaxC + 1)

InitCpo ==
    /\ upc = "idle"
    /\ c = 0
    /\ bb = 0
    /\ s = Num(0)
    /\ B = Num(0)
    /\ optim_case = 0
    /\ x = Num(0)
    /\ current_policy = Num(0)
    /\ actor = Num(0)
    /\ cand = 0
    /\ step_len = 0
    /\ tried = <<>>
    /\ verdicts = <<>>
    /\ last_eval = NoEval

\* update(avg_cost) is called.
UpdateBegin ==
    /\ upc = "idle"
    /\ \E cv \in CValues : c' = cv
    /\ upc' = "batch"
    /\ UNCHANGED <<bb, s, B, optim_case, x, current_policy, actor, cand, step_len, tried,
                   verdicts, last_eval, vecVars, restVars>>

\* The next mini-batch: its gradients and CG solutions.
BatchBegin ==
    /\ upc = "batch"
    /\ actor.k = "num" /\ actor.v <= MaxParam /\ 0 - actor.v <= MaxParam
    /\ \E bv \in BBValues, sv \in SValues : bb' = bv /\ s' = sv
    /\ upc' = "dual"
    /\ UNCHANGED <<c, B, optim_case, x, current_policy, actor, cand, step_len, tried,
                   verdicts, last_eval, vecVars, restVars>>

\* The dual optimizer: the case, then the direction x and the parameters the
\* line search starts from.
SelectCase ==
    /\ upc = "dual"
    /\ B' = DualCase(bb, c, s).B
    /\ optim_case' = DualCase(bb, c, s).optim_case
    /\ \E xv \in Directions(DualCase(bb, c, s).optim_case, s) : x' = xv
    /\ current_policy' = actor
    /\ cand' = SearchStart.k
    /\ step_len' = SearchStart.step_len
    /\ upc' = "search"
    /\ UNCHANGED <<c, bb, s, actor, tried, verdicts, last_eval, vecVars, restVars>>

\* The three acceptance conditions, as the line search is specified.
Feasible(kl, dl, dc) ==
    /\ kl <= MaxKl
    /\ optim_case > 1 => dl >= 0
    /\ dc <= (IF c < 0 THEN 0 - c ELSE 0)

\* set_and_eval(e) for the next candidate e.
Trial ==
    /\ upc = "search"
    /\ cand <= NumCandidates
    /\ LET e == StepOf(cand)
           th == NewPolicy(current_policy, e, x)
       IN  /\ actor' = th
           /\ tried' = Append(tried, e)
           /\ \E kl \in KLValues(th), dl \in LossChanges, dc \in CostChanges :
                IF ~KlOk(kl)
                THEN /\ upc' = "fault"
                     /\ verdicts' = Append(verdicts, FALSE)
                     /\ last_eval' = [th |-> th, kl |-> kl, dc |-> 0, ret |-> "raised"]
                     /\ UNCHANGED <<cand, step_len>>
                ELSE /\ verdicts' = Append(verdicts, Feasible(kl.v, dl, dc))
                     /\ last_eval' = IF Accept(kl.v, dl, dc, c, optim_case)
                                      THEN [th |-> th, kl |-> KlSeen(kl), dc |-> dc, ret |-> "true"]
                                      ELSE [th |-> th, kl |-> KlSeen(kl), dc |-> 0, ret |-> "false"]
                     /\ IF Accept(kl.v, dl, dc, c, optim_case)
                        THEN /\ step_len' = e
                             /\ upc' = "final"
                             /\ cand' = cand
                        ELSE /\ step_len' = step_len
                             /\ cand' = cand + 1
                             /\ upc' = IF cand = NumCandidates THEN "final" ELSE "search"
    /\ UNCHANGED <<c, bb, s, B, optim_case, x, current_policy, vecVars, restVars>>

\* new_policy = current_policy - step_len * x; set_params(actor, new_policy)
Install ==
    /\ upc = "final"
    /\ actor' = NewPolicy(current_policy, step_len, x)
    /\ upc' = "done"
    /\ UNCHANGED <<c, bb, s, B, optim_case, x, current_policy, cand, step_len, tried,
                   verdicts, last_eval, vecVars, restVars>>

\* The mini-batch is finished: on to the next, or update returns.  The
\* mini-batch's locals are dead from here on.
BatchEnd ==
    /\ upc = "done"
    /\ \E nxt \in {"batch", "idle"} : upc' = nxt
    /\ bb' = 0 /\ s' = Num(0) /\ B' = Num(0) /\ optim_case' = 0 /\ x' = Num(0)
    /\ current_policy' = Num(0) /\ cand' = 0 /\ step_len' = 0
    /\ tried' = <<>> /\ verdicts' = <<>> /\ last_eval' = NoEval
    /\ UNCHANGED <<c, actor, vecVars, restVars>>

NextCpo ==
    \/ UpdateBegin
    \/ BatchBegin
    \/ SelectCase
    \/ Trial
    \/ Install
    \/ BatchEnd

\* ------------------------------------- set_params / get_flat_params
MaxDim == 2
MaxBlocks == 2
MaxExtra == 1

\* A tensor: its size (one or two dimensions) and its elements, a sequence
\* (one dimension) or a sequence of rows (two).
Numel(size) == IF Len(size) = 1 THEN size[1] ELSE size[1] * size[2]

\* flat.view(size), for a flat of Numel(size) elements: row-major.
View(flat, size) ==
    [size |-> size,
     data |-> IF Len(size) = 1 THEN flat
              ELSE [r \in 1..size[1] |-> SubSeq(flat, (r - 1) * size[2] + 1, r * size[2])]]

RECURSIVE Cat(_)
\* torch.cat of one-dimensional tensors
Cat(vs) == IF vs = <<>> THEN <<>> ELSE Head(vs) \o Cat(Tail(vs))

\* t.view(-1)
ViewFlat(t) == IF Len(t.size) = 1 THEN t.data ELSE Cat(t.data)

flattenReversed(vecs) == Cat([k \in 1..Len(vecs) |-> ViewFlat(vecs[Len(vecs) + 1 - k])])

\* torch.cat([v.view(-1) for v in vecs])
flatten(vecs) == Cat([k \in 1..Len(vecs) |-> ViewFlat(vecs[k])])

\* flatten([param.view(-1) for param in parameters])
get_flat_params(model) ==
    flatten([k \in 1..Len(model) |-> View(ViewFlat(model[k]), <<Numel(model[k].size)>>)])

\* v[a:b]: the bounds are clamped to the length of v.
Slice(v, a, b) == SubSeq(v, Min(a, Len(v)) + 1, Min(b, Len(v)))

RECURSIVE SetFrom(_, _, _, _)
\* The loop of set_params from block k on, index elements consumed.  view
\* raises when the slice does not have the block's number of elements; the
\* blocks before k are written by then.
SetFrom(model, new_params, k, index) ==
    IF k > Len(model) THEN [raised |-> FALSE, model |-> model]
    ELSE LET params_length == Len(ViewFlat(model[k]))
             new_param == Slice(new_params, index, index + params_length)
         IN  IF Len(new_param) # Numel(model[k].size)
             THEN [raised |-> TRUE, model |-> model]
             ELSE SetFrom([model EXCEPT ![k] = View(new_param, model[k].size)],
                          new_params, k + 1, index + params_length)

set_params(model, new_params) == SetFrom(model, new_params, 1, 0)

RECURSIVE NumParams(_)
NumParams(model) == IF model = <<>> THEN 0 ELSE Numel(Head(model).size) + NumParams(Tail(model))

\* The models: one to MaxBlocks blocks of any size up to MaxDim per
\* dimension, every element of a model distinct.
Sizes == {<<n>> : n \in 1..MaxDim} \cup {<<r, k>> : r \in 1..MaxDim, k \in 1..MaxDim}
SizeLists == UNION {[1..n -> Sizes] : n \in 1..MaxBlocks}
Fill(sizes) ==
    [k \in 1..Len(sizes) |-> View([j \in 1..Numel(sizes[k]) |-> 100 * k + j], sizes[k])]
Vector(n) == [j \in 1..n |-> 1000 + j]

NoCall == [op |-> "none", before |-> <<>>, raised |-> FALSE]

InitParams ==
    /\ pmodel = <<>>
    /\ pvec = <<>>
    /\ pout = NoCall

\* A model and a vector shorter than, as long as, or longer than it.
InitModels ==
    /\ \E sizes \in SizeLists :
          /\ pmodel = Fill(sizes)
          /\ \E n \in 0..(NumParams(Fill(sizes)) + MaxExtra) : pvec = Vector(n)
    /\ pout = NoCall

\* set_params(model, vector)
SetParamsCall ==
    /\ pmodel # <<>>
    /\ pout.op = "none"
    /\ pmodel' = set_params(pmodel, pvec).model
    /\ pout' = [op |-> "set_params", before |-> pmodel,
                raised |-> set_params(pmodel, pvec).raised]
    /\ UNCHANGED <<pvec, vecVars, cpoVars, cgVars, runVars, ipoVars>>

\* set_params(model, get_flat_params(model))
RoundTripCall ==
    /\ pmodel # <<>>
    /\ pout.op # "roundtrip"
    /\ pmodel' = set_params(pmodel, get_flat_params(pmodel)).model
    /\ pout' = [op |-> "roundtrip", before |-> pmodel,
                raised |-> set_params(pmodel, get_flat_params(pmodel)).raised]
    /\ UNCHANGED <<pvec, vecVars, cpoVars, cgVars, runVars, ipoVars>>

NextParams ==
    \/ SetParamsCall
    \/ RoundTripCall

\* ------------------------------------------------------- cg_solver
\* Tensors and scalars by what decides the solver's divisions: exactly zero,
\* finite and not zero, infinite, nan.
Kinds == {"zero", "nonzero", "inf", "nan"}

KMul(a, b) ==
    CASE a = "nan" \/ b = "nan" -> "nan"
      [] {a, b} = {"inf", "zero"} -> "nan"
      [] a = "inf" \/ b = "inf" -> "inf"
      [] a = "zero" \/ b = "zero" -> "zero"
      [] OTHER -> "nonzero"

\* a / b: 0/0 and inf/inf are nan, a nonzero over 0 is infinite
KDiv(a, b) ==
    CASE a = "nan" \/ b = "nan" -> "nan"
      [] a = b /\ a \in {"zero", "inf"} -> "nan"
      [] b = "zero" -> "inf"
      [] b = "inf" -> "zero"
      [] OTHER -> a

\* a + b and a - b: two finite non-zero terms can cancel.
KAdd(a, b) ==
    CASE a = "nan" \/ b = "nan" -> {"nan"}
      [] a = "inf" /\ b = "inf" -> {"inf", "nan"}
      [] a = "inf" \/ b = "inf" -> {"inf"}
      [] a = "zero" -> {b}
      [] b = "zero" -> {a}
      [] OTHER -> {"zero", "nonzero"}

\* torch.matmul(u, u)
KSquare(u) == KMul(u, u)

\* d + EPS for a d that is not negative
KPlusEps(d) == IF d = "zero" THEN "nonzero" ELSE d

\* Avp_fun(p) = Fvp(p): H p + damping * p, H positive semi-definite, so p.Avp
\* is zero only for p = 0.
Fvp(v) == v

DefaultMaxIter == 10

LastIterationEarly(i, n) == i >= n - 2

\* if i == max_iter - 1: return x
LastIteration(i, n) == i = n - 1

InitCg ==
    /\ cg_pc = "idle"
    /\ max_iter = 0
    /\ cg_i = 0
    /\ cg_x = "zero" /\ cg_r = "zero" /\ cg_p = "zero"
    /\ cg_avp = "zero" /\ cg_alpha = "zero"
    /\ cg_calls = 0
    /\ cg_updates = 0
    /\ cg_divs = {}

\* cg_solver(Avp_fun, b, max_iter): x = 0, r = b, p = b
CgCall ==
    /\ cg_pc \in {"idle", "returned"}
    /\ \E n \in 1..DefaultMaxIter, b \in {"zero", "nonzero"} :
          /\ max_iter' = n
          /\ cg_r' = b /\ cg_p' = b
    /\ cg_x' = "zero"
    /\ cg_i' = 0
    /\ cg_avp' = "zero" /\ cg_alpha' = "zero"
    /\ cg_calls' = 0 /\ cg_updates' = 0 /\ cg_divs' = {}
    /\ cg_pc' = "loop"
    /\ UNCHANGED <<vecVars, cpoVars, paramVars, runVars, ipoVars>>

\* The first half of an iteration: Avp, alpha, x, and the return test.
CgIterate ==
    /\ cg_pc = "loop"
    /\ cg_avp' = Fvp(cg_p)
    /\ cg_calls' = cg_calls + 1
    /\ LET den == KPlusEps(KMul(cg_p, Fvp(cg_p)))
           alpha == KDiv(KSquare(cg_r), den)
       IN  /\ cg_alpha' = alpha
           /\ cg_divs' = cg_divs \cup {[at |-> "alpha", eps |-> TRUE, by |-> den]}
           /\ cg_x' \in KAdd(cg_x, KMul(alpha, cg_p))
    /\ cg_pc' = IF LastIteration(cg_i, max_iter) THEN "returned" ELSE "resid"
    /\ UNCHANGED <<max_iter, cg_i, cg_r, cg_p, cg_updates, vecVars, cpoVars, paramVars, runVars, ipoVars>>

\* The second half: r_new, beta, r, p.
CgResidual ==
    /\ cg_pc = "resid"
    /\ \E r_new \in KAdd(cg_r, KMul(cg_alpha, cg_avp)) :
          LET beta == KDiv(KSquare(r_new), KSquare(cg_r)) IN
          /\ cg_divs' = cg_divs \cup {[at |-> "beta", eps |-> FALSE, by |-> KSquare(cg_r)]}
          /\ cg_r' = r_new
          /\ cg_p' \in KAdd(r_new, KMul(beta, cg_p))
    /\ cg_updates' = cg_updates + 1
    /\ cg_i' = cg_i + 1
    /\ cg_pc' = "loop"
    /\ UNCHANGED <<max_iter, cg_x, cg_avp, cg_alpha, cg_calls, vecVars, cpoVars, paramVars, runVars, ipoVars>>

NextCg ==
    \/ CgCall
    \/ CgIterate
    \/ CgResidual

\* ------------------------------------------------------------ CPO.run
num_transitions_per_env == 2
num_learning_iterations == 2
maxlen == 2
MaxEpisodes == 3

RECURSIVE Gcd(_, _)
Gcd(a, b) == IF b = 0 THEN a ELSE Gcd(b, a % b)
RECURSIVE LcmUpTo(_)
LcmUpTo(n) == IF n <= 1 THEN 1 ELSE (LcmUpTo(n - 1) * n) \div Gcd(LcmUpTo(n - 1), n)

\* The stub task: environment i pays reward i per step and costs (i - 1)
\* cost steps; a cost step is a multiple of every possible number of episodes
\* of a rollout, so that the mean of the episode costs is exact.
CostStep == LcmUpTo(NumEnvs * num_transitions_per_env)
rews == [i \in Envs |-> i]
costs == [i \in Envs |-> (i - 1) * CostStep]
cost_lim == CostStep

RECURSIVE SeqSum(_)
SeqSum(q) == IF q = <<>> THEN 0 ELSE Head(q) + SeqSum(Tail(q))

\* np.mean(ep_cost)
Mean(q) == SeqSum(q) \div Len(q)

\* vals[new_ids] for new_ids = (dones > 0).nonzero(): in index order
AtDone(vals, dones) ==
    LET ids == SelectSeq([i \in Envs |-> i], LAMBDA i : dones[i])
    IN  [j \in 1..Len(ids) |-> vals[ids[j]]]

\* vals[new_ids] = 0
ZeroAtDone(vals, dones) == [i \in Envs |-> IF dones[i] THEN 0 ELSE vals[i]]

DequeAppendKeepOldest(buf, v) == IF Len(buf) = maxlen THEN buf ELSE Append(buf, v)

\* deque(maxlen=100).append(v): a full deque drops its oldest entry
DequeAppend(buf, v) == IF Len(buf) = maxlen THEN Append(Tail(buf), v) ELSE Append(buf, v)

RECURSIVE DequeExtend(_, _)
\* deque.extend(items): append one by one
DequeExtend(buf, items) ==
    IF items = <<>> THEN buf ELSE DequeExtend(DequeAppend(buf, Head(items)), Tail(items))

\* The parameter values an update starts from (see BatchBegin).
ParamValues == {Num(v) : v \in (0 - MaxParam)..MaxParam}

\* RolloutStorage
EmptyStorage == [step |-> 0, returns |-> FALSE, costs |-> FALSE]

AfterPhaseUpdateFirst(ph) ==
    CASE ph = "returns" -> "update"
      [] ph = "costs" -> "clear"
      [] ph = "update" -> "costs"
      [] OTHER -> "iter"

\* compute_returns; compute_costs; update; clear, then the next iteration
AfterPhase(ph) ==
    CASE ph = "returns" -> "costs"
      [] ph = "costs" -> "update"
      [] ph = "update" -> "clear"
      [] OTHER -> "iter"

InitRun ==
    /\ rpc = "idle"
    /\ it = 0
    /\ tstep = 0
    /\ storage = EmptyStorage
    /\ cur_reward_sum = [i \in Envs |-> 0]
    /\ cur_cost_sum = [i \in Envs |-> 0]
    /\ cur_episode_length = [i \in Envs |-> 0]
    /\ reward_sum = <<>> /\ cost_sum = <<>> /\ episode_length = <<>>
    /\ ep_cost = <<>>
    /\ rewbuffer = <<>> /\ costbuffer = <<>> /\ lenbuffer = <<>>
    /\ avg_cost = 0
    /\ oplog = <<>>
    /\ running = [i \in Envs |-> [reward |-> 0, cost |-> 0, length |-> 0]]
    /\ episodes = <<>>
    /\ last_case = 0 - 1

\* run(num_learning_iterations), training branch, up to the iteration loop
RunBegin ==
    /\ rpc = "idle"
    /\ rewbuffer' = DequeAppend(<<>>, 0)
    /\ costbuffer' = DequeAppend(<<>>, 0)
    /\ lenbuffer' = DequeAppend(<<>>, 0)
    /\ rpc' = "iter"
    /\ UNCHANGED <<it, tstep, storage, cur_reward_sum, cur_cost_sum, cur_episode_length,
                   reward_sum, cost_sum, episode_length, ep_cost, avg_cost, oplog,
                   running, episodes, last_case, vecVars, cpoVars, paramVars, cgVars, ipoVars>>

\* for it in range(...): ep_cost = []
IterBegin ==
    /\ rpc = "iter"
    /\ IF it < num_learning_iterations
       THEN /\ rpc' = "rollout"
            /\ ep_cost' = <<>>
            /\ tstep' = 0
            /\ oplog' = <<>>
            /\ last_case' = 0 - 1
       ELSE /\ rpc' = "finished"
            /\ UNCHANGED <<ep_cost, tstep, oplog, last_case>>
    /\ UNCHANGED <<it, storage, cur_reward_sum, cur_cost_sum, cur_episode_length,
                   reward_sum, cost_sum, episode_length, rewbuffer, costbuffer, lenbuffer,
                   avg_cost, running, episodes, vecVars, cpoVars, paramVars, cgVars, ipoVars>>

\* One pass of the rollout loop (print_log set): step the environments, store
\* the transition, book-keep the episodes that ended.
RolloutStep ==
    /\ rpc = "rollout"
    /\ \E dones \in [Envs -> BOOLEAN] :
          LET r == [i \in Envs |-> cur_reward_sum[i] + rews[i]]
              k == [i \in Envs |-> cur_cost_sum[i] + costs[i]]
              n == [i \in Envs |-> cur_episode_length[i] + 1]
              ran == [i \in Envs |-> [reward |-> running[i].reward + rews[i],
                                      cost |-> running[i].cost + costs[i],
                                      length |-> running[i].length + 1]]
          IN  /\ Len(episodes) + Len(AtDone(r, dones)) <= MaxEpisodes
              /\ reward_sum' = reward_sum \o AtDone(r, dones)
              /\ cost_sum' = cost_sum \o AtDone(k, dones)
              /\ ep_cost' = ep_cost \o AtDone(k, dones)
              /\ episode_length' = episode_length \o AtDone(n, dones)
              /\ cur_reward_sum' = ZeroAtDone(r, dones)
              /\ cur_cost_sum' = ZeroAtDone(k, dones)
              /\ cur_episode_length' = ZeroAtDone(n, dones)
              /\ episodes' = episodes \o AtDone(ran, dones)
              /\ running' = [i \in Envs |-> IF dones[i]
                                             THEN [reward |-> 0, cost |-> 0, length |-> 0]
                                             ELSE ran[i]]
    /\ storage' = [storage EXCEPT !.step = @ + 1]
    /\ oplog' = Append(oplog, "add_transitions")
    /\ tstep' = tstep + 1
    /\ rpc' = IF tstep + 1 = num_transitions_per_env THEN "stats" ELSE "rollout"
    /\ UNCHANGED <<it, rewbuffer, costbuffer, lenbuffer, avg_cost, last_case,
                   vecVars, cpoVars, paramVars, cgVars, ipoVars>>

\* After the rollout: avg_cost, and the statistics deques extended.
CollectStats ==
    /\ rpc = "stats"
    /\ avg_cost' = IF Len(ep_cost) = 0 THEN 0 ELSE Mean(ep_cost) - cost_lim
    /\ rewbuffer' = DequeExtend(rewbuffer, reward_sum)
    /\ costbuffer' = DequeExtend(costbuffer, cost_sum)
    /\ lenbuffer' = DequeExtend(lenbuffer, episode_length)
    /\ rpc' = "returns"
    /\ UNCHANGED <<it, tstep, storage, cur_reward_sum, cur_cost_sum, cur_episode_length,
                   reward_sum, cost_sum, episode_length, ep_cost, oplog, running,
                   episodes, last_case, vecVars, cpoVars, paramVars, cgVars, ipoVars>>

\* self.storage.compute_returns(last_values, gamma, lam)
ComputeReturns ==
    /\ rpc = "returns"
    /\ storage' = [storage EXCEPT !.returns = TRUE]
    /\ oplog' = Append(oplog, "compute_returns")
    /\ rpc' = AfterPhase("returns")
    /\ UNCHANGED <<it, tstep, cur_reward_sum, cur_cost_sum, cur_episode_length,
                   reward_sum, cost_sum, episode_length, ep_cost, rewbuffer, costbuffer,
                   lenbuffer, avg_cost, running, episodes, last_case,
                   vecVars, cpoVars, paramVars, cgVars, ipoVars>>

\* self.storage.compute_costs(last_cost_values, gamma, lam)
ComputeCosts ==
    /\ rpc = "costs"
    /\ storage' = [storage EXCEPT !.costs = TRUE]
    /\ oplog' = Append(oplog, "compute_costs")
    /\ rpc' = AfterPhase("costs")
    /\ UNCHANGED <<it, tstep, cur_reward_sum, cur_cost_sum, cur_episode_length,
                   reward_sum, cost_sum, episode_length, ep_cost, rewbuffer, costbuffer,
                   lenbuffer, avg_cost, running, episodes, last_case,
                   vecVars, cpoVars, paramVars, cgVars, ipoVars>>

\* self.update(avg_cost), start to end: the case its dual optimizer selects on
\* a mini-batch, the parameters it leaves in the actor, and whether it returns
\* or a KL assertion ends it (and run with it).
RunUpdate ==
    /\ rpc = "update"
    /\ c' = avg_cost
    /\ \E bv \in BBValues, sv \in SValues :
          last_case' = DualCase(bv, avg_cost, sv).optim_case
    /\ \E nxt \in {AfterPhase("update"), "aborted"} :
          /\ rpc' = nxt
          /\ \E th \in ParamValues \cup (IF nxt = "aborted" THEN {NaN} ELSE {}) : actor' = th
    /\ oplog' = Append(oplog, "update")
    /\ UNCHANGED <<upc, bb, s, B, optim_case, x, current_policy, cand, step_len, tried,
                   verdicts, last_eval>>
    /\ UNCHANGED <<it, tstep, storage, cur_reward_sum, cur_cost_sum, cur_episode_length,
                   reward_sum, cost_sum, episode_length, ep_cost, rewbuffer, costbuffer,
                   lenbuffer, avg_cost, running, episodes, vecVars, paramVars, cgVars, ipoVars>>

\* self.storage.clear(), the logging, and on to the next iteration
StorageClear ==
    /\ rpc = "clear"
    /\ storage' = EmptyStorage
    /\ oplog' = Append(oplog, "clear")
    /\ it' = it + 1
    /\ rpc' = AfterPhase("clear")
    /\ UNCHANGED <<tstep, cur_reward_sum, cur_cost_sum, cur_episode_length,
                   reward_sum, cost_sum, episode_length, ep_cost, rewbuffer, costbuffer,
                   lenbuffer, avg_cost, running, episodes, last_case,
                   vecVars, cpoVars, paramVars, cgVars, ipoVars>>

NextRun ==
    \/ RunBegin
    \/ IterBegin
    \/ RolloutStep
    \/ CollectStats
    \/ ComputeReturns
    \/ ComputeCosts
    \/ RunUpdate
    \/ StorageClear

\* ------------------------------------------------ IPO.compute_loss_pi
\* Floats as exact fractions n/d (d > 0), the infinities (n the sign) and nan.
\* All quantities are counted in units of the smallest one, the 1e-8 of the
\* denominator.
Frac(n, d) == IF d < 0 THEN [k |-> "num", n |-> 0 - n, d |-> 0 - d]
                       ELSE [k |-> "num", n |-> n, d |-> d]
FracNaN == [k |-> "nan", n |-> 0, d |-> 1]
FracInf(sgn) == [k |-> "inf", n |-> sgn, d |-> 1]

MaxKappa == 2
MaxLimit == 2
MaxPenalty == 2
MaxCost == 4
IpoEps == 1

KappaValues == (0 - 1)..MaxKappa
LimitValues == 0..MaxLimit
PenaltyMaxValues == (0 - 1)..MaxPenalty
\* The mean episode cost the logger reports.
EpCostValues == {Frac(n, 1) : n \in 0..MaxCost} \cup {FracNaN, FracInf(1)}

\* limit - f and f + e for finite limit and e.
FracRSub(limit, f) ==
    CASE f.k = "nan" -> FracNaN
      [] f.k = "inf" -> FracInf(0 - f.n)
      [] OTHER -> Frac(limit * f.d - f.n, f.d)
FracAdd(f, e) == IF f.k = "num" THEN Frac(f.n + e * f.d, f.d) ELSE f

\* n / f for a finite n where the division does not raise: n/0 is an
\* infinity, 0/0 nan, n/inf zero.
FracDiv(n, f) ==
    CASE f.k = "nan" -> FracNaN
      [] f.k = "inf" -> Frac(0, 1)
      [] f.n = 0 -> (IF n = 0 THEN FracNaN ELSE FracInf(Sign(n)))
      [] OTHER -> Frac(n * f.d * Sign(f.n), f.n * Sign(f.n))

\* f < 0 and f > m: both false of nan.
FracNegative(f) == f.k # "nan" /\ f.n < 0
FracAbove(f, m) ==
    CASE f.k = "nan" -> FALSE
      [] f.k = "inf" -> f.n > 0
      [] OTHER -> f.n > m * f.d

\* if penalty < 0 or penalty > self.penalty_max: penalty = self.penalty_max
Clamp(p, m) == IF FracNegative(p) \/ FracAbove(p, m) THEN Frac(m, 1) ELSE p

\* The defaults of __init__, in the units above.
InitIpo ==
    /\ cost_limit = MaxLimit
    /\ kappa = 1
    /\ penalty_max = 1
    /\ ep_costs = Frac(0, 1)
    /\ Penalty = <<>>
    /\ cost_coef = <<>>
    /\ ipo_out = "none"

\* Any cost_limit, kappa and penalty_max handed to __init__.
InitIpoAny ==
    /\ cost_limit \in LimitValues
    /\ kappa \in KappaValues
    /\ penalty_max \in PenaltyMaxValues
    /\ ep_costs = Frac(0, 1)
    /\ Penalty = <<>>
    /\ cost_coef = <<>>
    /\ ipo_out = "none"

\* compute_loss_pi with the logger reporting the mean episode cost ep.  A zero
\* denominator raises ZeroDivisionError when the statistic is a Python float
\* and gives an infinity or nan when it is a numpy scalar.
ComputeLossPi(ep) ==
    LET cc == FracRSub(cost_limit, ep)
        den == FracAdd(cc, IpoEps)
        penalty == Clamp(FracDiv(kappa, den), penalty_max)
    IN  /\ ep_costs' = ep
        /\ \/ /\ Penalty' = penalty
              /\ cost_coef' = penalty
              /\ ipo_out' = "returned"
           \/ /\ den.k = "num" /\ den.n = 0
              /\ ipo_out' = "raised"
              /\ UNCHANGED <<Penalty, cost_coef>>
        /\ UNCHANGED <<cost_limit, kappa, penalty_max, vecVars, cpoVars, paramVars,
                       cgVars, runVars>>

ComputeLoss == \E ep \in EpCostValues : ComputeLossPi(ep)

NextIpo == ComputeLoss

\* ------------------------------------------------------ specifications
InitVec ==
    /\ waiting = FALSE
    /\ closed = FALSE
    /\ pc = Idle
    /\ args = <<>>
    /\ results = <<>>
    /\ ret = [op |-> "init", outcome |-> "none", value |-> <<>>]
    /\ toWorker = [i \in Envs |-> <<>>]
    /\ toParent = [i \in Envs |-> <<>>]
    /\ wpc = [i \in Envs |-> "recv"]
    /\ \E m \in BOOLEAN :
          /\ env = [i \in Envs |-> NewEnv(m)]
          /\ denv = [i \in Envs |-> NewEnv(m)]
    /\ dret = [op |-> "init", outcome |-> "none", value |-> <<>>]
    /\ sentInCall = Zeros
    /\ recvInCall = Zeros
    /\ sentLog = [i \in Envs |-> <<>>]
    /\ wlog = [i \in Envs |-> <<>>]

\* The action batches the caller passes: every environment is given every
\* action, and no two environments of a batch the same one.
Batches == {[i \in Envs |-> (a + i) % (NumAgents + 1)] : a \in Actions}

vars == <<vecVars, cpoVars, restVars>>

Init == InitVec /\ InitCpo /\ InitParams /\ InitCg /\ InitRun /\ InitIpo

\* Any sequence of public calls on a ShareSubprocVecEnv, with its workers.
Quiet == UNCHANGED <<dummyVars, logVars, cpoVars, restVars>>

DoStepAsync == \E acts \in Batches : CallStepAsync(acts) /\ Quiet
DoStepWait == CallStepWait /\ Quiet
DoStep == \E acts \in Batches : CallStep(acts) /\ Quiet
DoReset == CallReset /\ Quiet
DoResetTask == CallResetTask /\ Quiet
DoClose == CallClose /\ Quiet
Send == ParentSend /\ Quiet
Recv == ParentRecv /\ Quiet
Join == ParentJoin /\ Quiet
Worker == \E i \in Envs : WorkerStep(i) /\ Quiet

Next ==
    \/ DoStepAsync
    \/ DoStepWait
    \/ DoStep
    \/ DoReset
    \/ DoResetTask
    \/ DoClose
    \/ Send
    \/ Recv
    \/ Join
    \/ Worker

Spec == Init /\ [][Next]_vars

\* step() calls, on idle pipes or on top of a step_async or reset dispatch;
\* the controlling process runs on from every send and recv it can do, and
\* every worker is scheduled fairly.
OnePending == \A i \in Envs : Outstanding(i) <= 1
LiveBatches == {acts \in Batches : acts[NumEnvs] \in {0, NumAgents}}
LiveStepAsync == OnePending /\ \E acts \in LiveBatches : CallStepAsync(acts) /\ Quiet
LiveStep == OnePending /\ \E acts \in LiveBatches : CallStep(acts) /\ Quiet
LiveReset == OnePending /\ CallReset /\ Quiet

NextLive ==
    \/ LiveStepAsync
    \/ LiveStep
    \/ LiveReset
    \/ Send
    \/ Recv
    \/ Worker

SpecLive ==
    /\ Init /\ [][NextLive]_vars
    /\ WF_vars(Send) /\ WF_vars(Recv)
    /\ \A i \in Envs : WF_vars(WorkerStep(i) /\ Quiet)

\* The same calls, reset() and step(actions) only, made on a ShareSubprocVecEnv
\* and on a ShareDummyVecEnv built from the same environment functions.
SyncStep == \E acts \in [Envs -> Actions] : CallStep(acts) /\ DummyStep(acts) /\ UNCHANGED <<logVars, cpoVars, restVars>>
SyncReset == CallReset /\ DummyResetCall /\ UNCHANGED <<logVars, cpoVars, restVars>>

NextSync ==
    \/ SyncStep
    \/ SyncReset
    \/ Send
    \/ Recv
    \/ Worker

SpecSync == Init /\ [][NextSync]_vars

\* One worker and a peer that may send it any request: the worker's contract
\* at its end of the pipe.
W == CHOOSE i \in Envs : TRUE

StepRequests == {[cmd |-> "step", data |-> a] : a \in Actions}
RenderRequests == {[cmd |-> "render", data |-> m] : m \in {"rgb_array", "human", "depth_array"}}
PlainRequests ==
    {[cmd |-> tag, data |-> 0] :
        tag \in {"reset", "reset_task", "close", "get_spaces", "render_vulnerability",
               "get_num_agents", "seed"}}
Requests == StepRequests \cup RenderRequests \cup PlainRequests

PeerSend ==
    /\ \E req \in Requests :
        /\ ~Dead(W)
        /\ Len(sentLog[W]) < MaxReq
        /\ toWorker' = [toWorker EXCEPT ![W] = Append(@, req)]
        /\ sentLog' = [sentLog EXCEPT ![W] = Append(@, req)]
    /\ UNCHANGED <<toParent, wlog, parentVars, workerVars, dummyVars, callObs, cpoVars, restVars>>

PeerRecv ==
    /\ toParent[W] # <<>>
    /\ toParent' = [toParent EXCEPT ![W] = Tail(@)]
    /\ UNCHANGED <<toWorker, logVars, parentVars, workerVars, dummyVars, callObs, cpoVars, restVars>>

\* The worker's loop iteration, observed: the request it took and the replies
\* that appeared in its pipe.
WorkerObserved ==
    /\ WorkerStep(W)
    /\ wlog' = [wlog EXCEPT ![W] =
                  Append(@, [req |-> Head(toWorker[W]),
                             env |-> env[W],
                             replies |-> SubSeq(toParent'[W], Len(toParent[W]) + 1,
                                                Len(toParent'[W]))])]
    /\ UNCHANGED <<sentLog, dummyVars, cpoVars, restVars>>

NextWorker ==
    \/ PeerSend
    \/ PeerRecv
    \/ WorkerObserved

SpecWorker == Init /\ [][NextWorker]_vars

\* CPO.update on its own: any constraint value, any mini-batches.
SpecCpo == Init /\ [][NextCpo]_vars

\* set_params and get_flat_params on every model and vector of the sizes above.
InitWithModels == InitVec /\ InitCpo /\ InitModels /\ InitCg /\ InitRun /\ InitIpo
SpecParams == InitWithModels /\ [][NextParams]_vars

\* cg_solver on any right-hand side with any budget; its loop runs on.
SpecCg == Init /\ [][NextCg]_vars /\ WF_vars(CgIterate) /\ WF_vars(CgResidual)

\* CPO.run: any done flags at every step.
SpecRun == Init /\ [][NextRun]_vars

\* IPO.compute_loss_pi, called again and again on any configuration with any
\* logged episode cost.
InitWithIpo == InitVec /\ InitCpo /\ InitParams /\ InitCg /\ InitRun /\ InitIpoAny
SpecIpo == InitWithIpo /\ [][NextIpo]_vars

\* ================================================================ claims
\* C1 (as claimed): after any sequence of the public calls every worker has
\* at most one request outstanding (sent, its reply not yet collected).
\* step_async and reset do not look at waiting, so a second dispatch goes out
\* on top of a pending one.
C1_OneOutstanding == \A i \in Envs : Outstanding(i) <= 1

\* The claim's reading of "all agents done".
AllAgentsDone(done) ==
    \/ done.isbool /\ done.v = <<TRUE>>
    \/ ~done.isbool /\ {done.v[k] : k \in 1..Len(done.v)} \subseteq {TRUE}

\* C2: on a step request the worker resets its environment before replying
\* exactly when the step reported all agents done (or a true scalar done);
\* the reply then carries the reset's observation, shared observation and
\* available actions with the terminal step's reward, cost, done and info,
\* and otherwise the step's own observations, the environment not reset.
C2_AutoReset ==
    \A k \in 1..Len(wlog[W]) :
        LET e == wlog[W][k]
            st == EnvStep(W, e.env, e.req.data)
            after == IF k < Len(wlog[W]) THEN wlog[W][k + 1].env ELSE env[W]
            r == e.replies[1]
        IN  e.req.cmd = "step" =>
              /\ Len(e.replies) = 1
              /\ (after.t = 0) <=> AllAgentsDone(st.done)
              /\ r.reward = st.reward /\ r.cost = st.cost
              /\ r.done = st.done /\ r.info = st.info
              /\ IF AllAgentsDone(st.done)
                 THEN r.ob = Obs(W, 0) /\ r.s_ob = ShareObs(W, 0) /\ r.avail = Avail(W, 0)
                 ELSE r.ob = st.ob /\ r.s_ob = st.s_ob /\ r.avail = st.avail /\ after = st.env

\* C2 witness: the worker has answered a step in which every agent was done
\* from a running episode, and another in which only some were.
C2_Witness ==
    /\ \E k \in 1..Len(wlog[W]) :
         /\ wlog[W][k].req.cmd = "step"
         /\ wlog[W][k].env.t > 0
         /\ AllAgentsDone(wlog[W][k].replies[1].done)
    /\ \E k \in 1..Len(wlog[W]) :
         /\ wlog[W][k].req.cmd = "step"
         /\ ~wlog[W][k].replies[1].done.isbool
         /\ \E a \in 1..NumAgents : wlog[W][k].replies[1].done.v[a]
         /\ ~AllAgentsDone(wlog[W][k].replies[1].done)

\* The response column of the protocol table: the replies a request is owed.
Owed(req) ==
    CASE req.cmd = "step" -> <<"step">>
      [] req.cmd = "reset" -> <<"reset">>
      [] req.cmd = "reset_task" -> <<"task">>
      [] req.cmd = "get_spaces" -> <<"spaces">>
      [] req.cmd = "get_num_agents" -> <<"num_agents">>
      [] req.cmd = "render" /\ req.data = "rgb_array" -> <<"frame">>
      [] req.cmd = "render" /\ req.data = "human" -> <<>>
      [] req.cmd = "close" -> <<>>

InTable(req) ==
    \/ req.cmd \in {"step", "reset", "reset_task", "get_spaces", "get_num_agents", "close"}
    \/ req.cmd = "render" /\ req.data \in {"rgb_array", "human"}

ReplyKinds(e) == [j \in 1..Len(e.replies) |-> e.replies[j].kind]

\* C3: a worker takes its requests one at a time in arrival order; to a step,
\* reset, reset_task, get_spaces, get_num_agents or rgb render it sends exactly
\* one response before it takes the next request, to close and to a human
\* render none.
C3_OneReplyInOrder ==
    /\ Len(wlog[W]) <= Len(sentLog[W])
    /\ \A k \in 1..Len(wlog[W]) :
         /\ wlog[W][k].req = sentLog[W][k]
         /\ InTable(wlog[W][k].req) => ReplyKinds(wlog[W][k]) = Owed(wlog[W][k].req)

\* C3 witness: the worker has answered two different queued requests and has
\* taken a human render without answering.
C3_Witness ==
    /\ Len(wlog[W]) = 3
    /\ wlog[W][1].req.cmd = "reset" /\ wlog[W][2].req.cmd = "step"
    /\ wlog[W][3].req = [cmd |-> "render", data |-> "human"]
    /\ wlog[W][3].replies = <<>>

\* C4: close() collects the pending reply of every worker when a step dispatch
\* is outstanding, then sends close to every worker; a worker that leaves its
\* loop has closed its environment; closed is set only once every worker has
\* terminated: no state has closed set and a live worker.
C4_CloseJoinsAll ==
    /\ closed => \A i \in Envs : wpc[i] = "exited" /\ env[i].closed
    /\ \A i \in Envs : wpc[i] = "exited" => env[i].closed
    /\ (pc.fn = "close" /\ pc.phase \in {"send", "join"} /\ waiting)
          => \A i \in Envs : recvInCall[i] = 1
    /\ (pc.fn = "close" /\ pc.phase = "join") => \A i \in Envs : sentInCall[i] = 1

\* C4 witness: close() has returned after draining a pending step dispatch.
C4_Witness ==
    /\ closed /\ waiting /\ pc = Idle
    /\ \A i \in Envs : recvInCall[i] = 1 /\ sentInCall[i] = 1

\* C5: step(actions) and reset() send to every worker before they receive any
\* reply and return only after exactly one reply from every worker; waiting is
\* false once step() has returned.
C5_DispatchThenCollect ==
    /\ (pc.op \in {"step", "reset"} /\ \E i \in Envs : recvInCall[i] > 0)
          => \A j \in Envs : sentInCall[j] = 1
    /\ (pc = Idle /\ ret.op \in {"step", "reset"} /\ ret.outcome = "returned")
          => /\ \A i \in Envs : recvInCall[i] = 1 /\ sentInCall[i] = 1
             /\ ret.op = "step" => ~waiting

\* C5 witness: a step() has returned, one reply collected from every worker.
C5_Witness ==
    pc = Idle /\ ret.op = "step" /\ ret.outcome = "returned"
       /\ \A i \in Envs : recvInCall[i] = 1

\* C6: for the same reset() and step(actions) calls the ShareDummyVecEnv
\* returns what the ShareSubprocVecEnv returns: per environment, in the same
\* order, the same observations, rewards, costs and done flags, the reset's
\* observations in place of a terminal step's.
C6_DummyEquivalent ==
    (pc = Idle /\ ret.op \in {"step", "reset"}) =>
        /\ ret.outcome = "returned"
        /\ dret.op = ret.op
        /\ \A i \in Envs :
             /\ ret.value.obs[i] = dret.value.obs[i]
             /\ ret.value.share_obs[i] = dret.value.share_obs[i]
             /\ ret.value.available_actions[i] = dret.value.available_actions[i]
             /\ ret.op = "step" =>
                  /\ ret.value.rews[i] = dret.value.rews[i]
                  /\ ret.value.costs[i] = dret.value.costs[i]
                  /\ ret.value.dones[i] = dret.value.dones[i]
             /\ env[i] = denv[i]

\* C6 witness: a step() has returned in which one environment ended its
\* episode (its reset observation returned) and another reported some agent
\* done but went on.
C6_Witness ==
    /\ pc = Idle /\ ret.op = "step" /\ ret.outcome = "returned"
    /\ \E i, j \in Envs :
         /\ AllAgentsDone(ret.value.dones[i]) /\ ret.value.obs[i] = Obs(i, 0)
         /\ ~AllAgentsDone(ret.value.dones[j])
         /\ \E a \in 1..Len(ret.value.dones[j].v) : ret.value.dones[j].v[a]

KnownTags ==
    {"step", "reset", "reset_task", "render", "close", "get_spaces",
     "render_vulnerability", "get_num_agents"}

\* C7: a worker that takes a request with an unknown tag faults and leaves its
\* loop: it sends no response to it and takes no later request.
C7_UnknownTagFatal ==
    /\ \A k \in 1..Len(wlog[W]) :
         wlog[W][k].req.cmd \notin KnownTags =>
            /\ wlog[W][k].replies = <<>>
            /\ k = Len(wlog[W])
            /\ wpc[W] = "faulted"
    /\ wpc[W] = "faulted" => wlog[W][Len(wlog[W])].req.cmd \notin KnownTags

\* C7 witness: the worker has faulted on an unknown tag with a later request
\* still in its pipe.
C7_Witness ==
    /\ wpc[W] = "faulted"
    /\ Len(wlog[W]) = 2
    /\ toWorker[W] # <<>>

Chosen == upc \in {"search", "final", "done", "fault"}

\* C8: every mini-batch update selects exactly one case in 0..4, decided by
\* (b.b, c, B): case 4 exactly when b.b <= 1e-8 and c < 0; otherwise 3 when
\* c < 0 and B < 0, 2 when c < 0 and B >= 0, 1 when c >= 0 and B >= 0, 0 when
\* c >= 0 and B < 0.
C8_CaseSelection ==
    Chosen =>
        /\ optim_case \in 0..4
        /\ optim_case = 4 <=> (bb <= BBThreshold /\ c < 0)
        /\ optim_case # 4 =>
             /\ (c < 0 /\ FNeg(B)) => optim_case = 3
             /\ (c < 0 /\ FNonNeg(B)) => optim_case = 2
             /\ (c >= 0 /\ FNonNeg(B)) => optim_case = 1
             /\ (c >= 0 /\ FNeg(B)) => optim_case = 0

\* C8 witness: case 1 selected on the boundary B = 0, with b.b above 1e-8.
C8_Witness == Chosen /\ optim_case = 1 /\ B = Num(0) /\ bb = 2 /\ c > 0

\* C9: the line search evaluates the candidates in strictly descending order
\* and stops at the first it accepts; the accepted step is the largest
\* candidate with KL <= max_kl, the surrogate return not below its pre-step
\* value (checked only when case > 1) and the surrogate-cost increase at most
\* max(-c, 0); with none accepted the step length is exactly zero.
C9_LineSearch ==
    /\ \A j \in 1..Len(tried) :
         /\ j = 1 => tried[j] = NumCandidates - 1
         /\ j > 1 => tried[j] < tried[j - 1]
         /\ j < Len(tried) => ~verdicts[j]
    /\ upc \in {"final", "done"} =>
         IF \E j \in 1..Len(verdicts) : verdicts[j]
         THEN verdicts[Len(tried)] /\ step_len = tried[Len(tried)]
         ELSE Len(tried) = NumCandidates /\ tried[Len(tried)] = 0 /\ step_len = 0

\* C9 witness: a search that rejected candidates and then accepted a smaller
\* one whose surrogate return had dropped (case <= 1).
C9_Witness ==
    /\ upc = "done" /\ Len(tried) = 3 /\ verdicts[3] /\ step_len = NumCandidates - 3
    /\ optim_case = 1

AllRejected ==
    /\ Len(tried) = NumCandidates
    /\ \A j \in 1..Len(verdicts) : ~verdicts[j]

\* C10: when every candidate of a line search was rejected, the actor's
\* parameters after the mini-batch update are those from before the search,
\* though every rejected trial overwrote them.
C10_RejectedRestores ==
    (upc = "done" /\ AllRejected) => actor = current_policy

\* C10 witness: an update finished with every candidate rejected, along a
\* non-zero direction (the trials did move the parameters).
C10_Witness == upc = "done" /\ AllRejected /\ x = Num(1) /\ actor = current_policy

\* The surrogate-cost change of the parameters a finished mini-batch update
\* installed: the one measured by the trial that accepted them, or none when
\* no trial accepted and the pre-step parameters are back.
Installed == last_eval.ret = "true" /\ actor = last_eval.th
Restored == last_eval.ret = "false" /\ actor = current_policy
CostIncrease == IF Installed THEN last_eval.dc ELSE 0

\* C11: after every completed line search the surrogate cost at the installed
\* parameters exceeds the pre-step surrogate cost by at most max(-c, 0): by at
\* most -c in cases 2, 3, 4, where c < 0, and not at all in cases 0 and 1,
\* where c >= 0.
C11_CostBound ==
    upc = "done" =>
        /\ Installed \/ Restored
        /\ CostIncrease <= Max(0 - c, 0)
        /\ optim_case \in {2, 3, 4} => (c < 0 /\ CostIncrease <= 0 - c)
        /\ optim_case \in {0, 1} => (c >= 0 /\ CostIncrease <= 0)

\* C11 witness: a step accepted in case 2 whose surrogate cost rose by the
\* whole slack -c.
C11_Witness ==
    /\ upc = "done" /\ Installed /\ optim_case = 2
    /\ c < 0 /\ CostIncrease = 0 - c /\ x = Num(1) /\ step_len > 0

NegativeKl == last_eval.ret # "none" /\ ~FNonNeg(last_eval.kl)

\* C18: a line-search trial that computes a negative mean KL halts the update
\* with its assertion at that trial: no later candidate is evaluated and the
\* update does not return.
C18_NegativeKlHalts ==
    /\ [](NegativeKl => (upc = "fault" /\ last_eval.ret = "raised"))
    /\ [][upc = "fault" => (upc' = "fault" /\ tried' = tried /\ actor' = actor)]_vars

\* C18 witness: the second candidate's KL was negative, eight candidates are
\* left untried.
C18_Witness ==
    /\ upc = "fault" /\ last_eval.kl = Num(0 - 1)
    /\ Len(tried) = 2 /\ tried[2] = NumCandidates - 2

\* C15 (as claimed): set_params(model, vector) fails whenever the vector's
\* length differs from the model's parameter count, shorter or longer.  The
\* slices of a longer vector all have the right length: the call succeeds and
\* ignores the tail.
C15_MismatchRaises ==
    (pout.op = "set_params" /\ Len(pvec) # NumParams(pout.before)) => pout.raised

\* Element (r, k) of block b sits in the flat vector after all the elements of
\* the blocks before b and of the rows before r.
InOrder(model, flat) ==
    \A b \in 1..Len(model) :
        LET off == NumParams(SubSeq(model, 1, b - 1))
            size == model[b].size
        IN  IF Len(size) = 1
            THEN \A k \in 1..size[1] : flat[off + k] = model[b].data[k]
            ELSE \A r \in 1..size[1], k \in 1..size[2] :
                    flat[off + (r - 1) * size[2] + k] = model[b].data[r][k]

\* C16: set_params(model, get_flat_params(model)) leaves every block with
\* the values and shape it had; the flat vector holds the blocks in iteration
\* order, each block's elements contiguous and row by row.
C16_RoundTrip ==
    pout.op = "roundtrip" =>
        /\ ~pout.raised
        /\ pmodel = pout.before
        /\ Len(get_flat_params(pout.before)) = NumParams(pout.before)
        /\ InOrder(pout.before, get_flat_params(pout.before))

\* C16 witness: a round trip on a model of two blocks of different shapes,
\* one of them MaxDim x MaxDim.
C16_Witness ==
    /\ pout.op = "roundtrip" /\ pmodel = pout.before
    /\ Len(pmodel) = 2
    /\ pmodel[1].size = <<MaxDim, MaxDim>> /\ pmodel[2].size = <<MaxDim>>
    /\ pmodel[1].data[MaxDim][1] = 100 + (MaxDim - 1) * MaxDim + 1

\* C17: cg_solver with budget max_iter >= 1 terminates after calling the
\* vector-product operator exactly max_iter times: it updates the residual and
\* the direction max_iter - 1 times, returns x on the last iteration without
\* updating the residual, and never leaves earlier, whatever the residual.
C17_CgBudget ==
    /\ [](cg_pc = "returned" =>
            /\ cg_calls = max_iter
            /\ cg_updates = max_iter - 1
            /\ cg_i = max_iter - 1)
    /\ [](cg_pc \in {"loop", "resid"} => (cg_i < max_iter /\ cg_updates = cg_i))
    /\ [][cg_pc' = "returned" => (cg_pc = "loop" /\ cg_updates' = cg_updates)]_vars
    /\ [](cg_pc = "loop" => <>(cg_pc = "returned"))

\* C17 witness: a run with the default budget returned after its residual
\* had become exactly zero on the way.
C17_Witness ==
    /\ cg_pc = "returned" /\ max_iter = DefaultMaxIter
    /\ cg_calls = DefaultMaxIter /\ cg_r # "nonzero" /\ cg_x = "nan"

\* C20 (as claimed): every division of the CG solver has EPS added to its
\* divisor and no divisor is exactly zero.  beta = r_new.r_new / r.r has no
\* EPS, and r.r is zero as soon as the residual is.
C20_DivisionsGuarded ==
    \A d \in cg_divs : d.eps /\ d.by # "zero"

EmptyRollout == rpc \in {"clear", "aborted"} /\ ep_cost = <<>>

\* C12 (as claimed): when no episode completes during a rollout the update
\* is given a neutral c and selects an origin-feasible case (2, 3 or 4), never
\* a recovery case.  c is 0 then, and 0 is not < 0: the cases are 1 and 0.
C12_EmptyRolloutFeasible ==
    EmptyRollout => (avg_cost = 0 /\ c = 0 /\ last_case \in {2, 3, 4})

\* The last n entries of q.
LastN(q, n) == SubSeq(q, Max(Len(q) - n, 0) + 1, Len(q))

Buffers == <<rewbuffer, costbuffer, lenbuffer>>
Lists == <<reward_sum, cost_sum, episode_length>>

\* C13: each of the reward, cost and length buffers holds at most maxlen
\* entries at all times, and adding to a full buffer removes the oldest
\* entries: after an extension the buffer is the newest maxlen entries of
\* what it held followed by what was added.
C13_BoundedOldestFirst ==
    /\ [](\A b \in 1..3 : Len(Buffers[b]) <= maxlen)
    /\ [][rpc = "stats" =>
            \A b \in 1..3 : Buffers[b]' = LastN(Buffers[b] \o Lists[b], maxlen)]_vars

\* C13 witness: an extension of full buffers by more entries than they hold.
C13_Witness ==
    /\ rpc = "returns" /\ it = 1
    /\ Len(reward_sum) > maxlen
    /\ rewbuffer = LastN(reward_sum, maxlen)
    /\ Len(lenbuffer) = maxlen

Field(es, f) == [j \in 1..Len(es) |-> es[j][f]]

\* C14 (as claimed): every episode completion moves the environment's
\* reward, cost and length into the buffers exactly once and zeroes its running
\* sums; the buffers hold one entry per completion still in the window, and no
\* other entry.  The buffers start with an entry 0 each, and the lists they
\* are extended with are never emptied, so that every iteration adds every
\* earlier episode again.
C14_OneEntryPerEpisode ==
    /\ \A i \in Envs : /\ cur_reward_sum[i] = running[i].reward
                        /\ cur_cost_sum[i] = running[i].cost
                        /\ cur_episode_length[i] = running[i].length
    /\ rpc \in {"returns", "costs", "update", "clear", "iter", "finished"} =>
          /\ rewbuffer = LastN(Field(episodes, "reward"), maxlen)
          /\ costbuffer = LastN(Field(episodes, "cost"), maxlen)
          /\ lenbuffer = LastN(Field(episodes, "length"), maxlen)

Expected ==
    [j \in 1..num_transitions_per_env |-> "add_transitions"]
        \o <<"compute_returns", "compute_costs", "update", "clear">>

\* C19: in every iteration exactly num_transitions_per_env transitions are
\* added to the storage, then compute_returns, compute_costs, one update and
\* clear follow in this order; the storage is cleared once per iteration and
\* nothing is added between compute_returns and clear.
C19_IterationOrder ==
    /\ Len(oplog) <= Len(Expected)
    /\ oplog = SubSeq(Expected, 1, Len(oplog))
    /\ (rpc \in {"iter", "finished"} /\ it > 0) => oplog = Expected
    /\ storage.step = IF oplog = Expected THEN 0
                      ELSE Len(SelectSeq(oplog, LAMBDA o : o = "add_transitions"))
    /\ storage.returns => storage.step = num_transitions_per_env

\* C19 witness: the second iteration ran to its clear.
C19_Witness ==
    /\ rpc = "iter" /\ it = 2 /\ oplog = Expected /\ storage = EmptyStorage
    /\ Len(episodes) > 0

\* A step() call in progress that began with every worker alive and none of
\* their pipes holding anything.
StepOnClean ==
    /\ pc.op = "step"
    /\ \A i \in Envs : ~Dead(i) /\ Outstanding(i) = sentInCall[i] - recvInCall[i]

\* C21: with every worker scheduled fairly and none faulting, every step()
\* call comes back to its caller, in whatever order the workers finish; it
\* returns the batch when it began on idle pipes and live workers.
C21_StepReturns ==
    /\ (pc.op = "step") ~> (pc = Idle)
    /\ StepOnClean ~> (pc = Idle /\ ret.op = "step" /\ ret.outcome = "returned")

\* C21 witness: step() waits for the first worker's reply while the last
\* worker has already sent its own.
C21_Witness ==
    /\ StepOnClean /\ pc.phase = "recv" /\ pc.i = 1
    /\ toParent[1] = <<>> /\ toWorker[1] # <<>>
    /\ toParent[NumEnvs] # <<>>

\* The step request of the dispatch in progress to worker i, while it is
\* still in the pipe.
Dispatched(i) ==
    /\ pc.fn = "step_async" /\ pc.phase = "send"
    /\ sentInCall[i] = 1 /\ toWorker[i] # <<>>

\* C22: in step() and reset() the i-th action goes to worker i and the i-th
\* entry of every returned batch is worker i's reply, in whatever order the
\* workers finish: every entry i is an observation of environment i, and a
\* step() on idle pipes returns in entry i the reward of the i-th action.
C22_EntryPerWorker ==
    /\ \A i \in Envs :
          Dispatched(i) =>
              toWorker[i][Len(toWorker[i])] = [cmd |-> "step", data |-> args[i]]
    /\ (pc = Idle /\ ret.op \in {"step", "reset"} /\ ret.outcome = "returned") =>
          \A i \in Envs : \E t \in 0..MaxT :
              /\ ret.value.obs[i] = Obs(i, t)
              /\ ret.value.share_obs[i] = ShareObs(i, t)
              /\ ret.value.available_actions[i] = Avail(i, t)
    /\ (pc = Idle /\ ret.op = "step" /\ ret.outcome = "returned"
          /\ \A i \in Envs : Outstanding(i) = 0) =>
          \E acts \in Batches : \A i \in Envs : ret.value.rews[i] = acts[i] + 1

\* C22 witness: a step() on idle pipes has returned a batch whose entries
\* differ, one environment restarted and another not.
C22_Witness ==
    /\ pc = Idle /\ ret.op = "step" /\ ret.outcome = "returned"
    /\ \A i \in Envs : Outstanding(i) = 0
    /\ ret.value.rews[1] # ret.value.rews[NumEnvs]
    /\ env[1].t # env[NumEnvs].t

\* A float inside [0, penalty_max].
InRange(f) == f.k = "num" /\ 0 <= f.n /\ f.n <= penalty_max * f.d

\* kappa / (cost_limit - EpCosts + 1e-8) of the last call.
Quotient == FracDiv(kappa, FracAdd(FracRSub(cost_limit, ep_costs), IpoEps))

\* C23 (as claimed): the penalty compute_loss_pi stores and multiplies into
\* the cost surrogate is kappa / (cost_limit - EpCosts + 1e-8) when that lies
\* in [0, penalty_max] and penalty_max otherwise, so for penalty_max >= 0 it
\* always lies in [0, penalty_max].
C23_PenaltyClamped ==
    ipo_out = "returned" =>
        /\ Penalty = (IF InRange(Quotient) THEN Quotient ELSE Frac(penalty_max, 1))
        /\ cost_coef = Penalty
        /\ penalty_max >= 0 => InRange(Penalty)

====
